---- MODULE Spec2Model ----
(***************************************************************************)
(* Content moderation and submission-status pipeline of the Avoure blog:   *)
(* the pre-submission screener (auth/moderation), the user submit form     *)
(* (pages/SubmitBlog), and the moderation views acting on the stored       *)
(* records (ModerateContent, UserBlogs, the AdminUpload dashboard and      *)
(* AdminDashboard).                                                        *)
(*                                                                         *)
(* Text is modelled as a sequence of one-character strings, so that        *)
(* concatenation, lower-casing, substring search, trimming and length are  *)
(* computed the way the JavaScript string operations compute them.         *)
(***************************************************************************)
EXTENDS Integers, Sequences, FiniteSets, TLC

\* null, encoded as a one-element sequence that no text equals (the elements
\* of a text are single characters)
NULL == <<"null">>

-----------------------------------------------------------------------------
(* JavaScript string operations used by the screener and the forms.        *)

UpperChars == <<"A","B","C","D","E","F","G","H","I","J","K","L","M",
                "N","O","P","Q","R","S","T","U","V","W","X","Y","Z">>
LowerChars == <<"a","b","c","d","e","f","g","h","i","j","k","l","m",
                "n","o","p","q","r","s","t","u","v","w","x","y","z">>
Digits == {"0","1","2","3","4","5","6","7","8","9"}

IsUpper(c) == \E i \in 1..Len(UpperChars) : UpperChars[i] = c

LowerOf(c) ==
  IF IsUpper(c)
    THEN LowerChars[CHOOSE i \in 1..Len(UpperChars) : UpperChars[i] = c]
    ELSE c

\* String.prototype.toLowerCase
ToLowerCase(s) == [i \in 1..Len(s) |-> LowerOf(s[i])]

\* String.prototype.includes
Includes(s, w) ==
  \E i \in 1..(Len(s) - Len(w) + 1) : SubSeq(s, i, i + Len(w) - 1) = w

\* White space removed by String.prototype.trim
WhiteSpace == {" ", "\t", "\n", "\r"}

\* String.prototype.trim
Trim(s) ==
  LET keep == {i \in 1..Len(s) : s[i] \notin WhiteSpace}
  IN IF keep = {} THEN <<>>
     ELSE LET lo == CHOOSE i \in keep : \A j \in keep : i <= j
              hi == CHOOSE i \in keep : \A j \in keep : j <= i
          IN SubSeq(s, lo, hi)

\* "x".repeat(n)
Repeat(c, n) == [i \in 1..n |-> c]

\* The regular-expression class \w
IsWordChar(c) ==
  \/ \E i \in 1..Len(LowerChars) : LowerChars[i] = c
  \/ IsUpper(c)
  \/ c \in Digits
  \/ c = "_"

-----------------------------------------------------------------------------
(* The screener: auth/moderation.                                          *)

\* Entries of the word list of the bad-words Filter (new Filter(), default
\* list, nothing excluded). The list is the library's; these are the entries
\* the model's inputs exercise.
BadWords == { <<"d","a","m","n">>, <<"h","e","l","l">> }

\* new RegExp(`\\b${word}\\b`, 'gi') matching s at position i
WordMatchAt(s, w, i) ==
  /\ i + Len(w) - 1 <= Len(s)
  /\ \A k \in 1..Len(w) : LowerOf(s[i + k - 1]) = LowerOf(w[k])
  /\ (i = 1 \/ ~IsWordChar(s[i - 1]))
  /\ (i + Len(w) - 1 = Len(s) \/ ~IsWordChar(s[i + Len(w)]))

\* filter.isProfane(string): some list word matches between word boundaries,
\* ignoring case
isProfane(s) ==
  \E w \in BadWords : \E i \in 1..Len(s) : WordMatchAt(s, w, i)

allowedTopics ==
  << <<"f","a","s","h","i","o","n">>,
     <<"b","e","a","u","t","y">>,
     <<"s","t","y","l","e">>,
     <<"m","a","k","e","u","p">>,
     <<"l","i","f","e","s","t","y","l","e">>,
     <<"s","h","o","p","p","i","n","g">>,
     <<"s","k","i","n","c","a","r","e">>,
     <<"o","u","t","f","i","t">>,
     <<"l","u","x","u","r","y">>,
     <<"t","r","e","n","d">> >>

MinContentLength == 100

\* "Profanity or inappropriate language detected."
ProfanityReason ==
  <<"P","r","o","f","a","n","i","t","y"," ","o","r"," ","i","n","a","p",
    "p","r","o","p","r","i","a","t","e"," ","l","a","n","g","u","a","g",
    "e"," ","d","e","t","e","c","t","e","d",".">>
\* "Content is not related to fashion, beauty, or lifestyle."
RelevanceReason ==
  <<"C","o","n","t","e","n","t"," ","i","s"," ","n","o","t"," ","r","e",
    "l","a","t","e","d"," ","t","o"," ","f","a","s","h","i","o","n",",",
    " ","b","e","a","u","t","y",","," ","o","r"," ","l","i","f","e","s",
    "t","y","l","e",".">>
\* "Content too short or lacks substance."
LengthReason ==
  <<"C","o","n","t","e","n","t"," ","t","o","o"," ","s","h","o","r","t",
    " ","o","r"," ","l","a","c","k","s"," ","s","u","b","s","t","a","n",
    "c","e",".">>

Verdict(s, f, r) == [status |-> s, flagged |-> f, flag_reason |-> r]

\* fullText built from title and content only
FullText_WithoutCategory(title, content, category) ==
  ToLowerCase(title \o <<" ">> \o content)

\* `${title} ${content} ${category}`.toLowerCase()
FullText(title, content, category) ==
  ToLowerCase(title \o <<" ">> \o content \o <<" ">> \o category)

\* allowedTopics.some(keyword => fullText.includes(keyword))
IsRelevant(fullText) ==
  \E k \in 1..Len(allowedTopics) : Includes(fullText, allowedTopics[k])

\* the length test written with <=
TooShort_OffByOne(content) == Len(Trim(content)) <= MinContentLength

\* content.trim().length < 100
TooShort(content) == Len(Trim(content)) < MinContentLength

\* the relevance check placed before the profanity check
moderateBlogContent_RelevanceFirst(title, content, category) ==
  LET fullText == ToLowerCase(title \o <<" ">> \o content \o <<" ">> \o category)
  IN IF ~IsRelevant(fullText)
       THEN Verdict("rejected", TRUE, RelevanceReason)
     ELSE IF isProfane(fullText)
       THEN Verdict("rejected", TRUE, ProfanityReason)
     ELSE IF Len(Trim(content)) < MinContentLength
       THEN Verdict("rejected", TRUE, LengthReason)
     ELSE Verdict("pending", FALSE, NULL)

\* the quality check placed before the relevance check
moderateBlogContent_LengthFirst(title, content, category) ==
  LET fullText == ToLowerCase(title \o <<" ">> \o content \o <<" ">> \o category)
  IN IF isProfane(fullText)
       THEN Verdict("rejected", TRUE, ProfanityReason)
     ELSE IF Len(Trim(content)) < MinContentLength
       THEN Verdict("rejected", TRUE, LengthReason)
     ELSE IF ~IsRelevant(fullText)
       THEN Verdict("rejected", TRUE, RelevanceReason)
     ELSE Verdict("pending", FALSE, NULL)

\* a passing post published at once
moderateBlogContent_AutoPublish(title, content, category) ==
  LET fullText == ToLowerCase(title \o <<" ">> \o content \o <<" ">> \o category)
  IN IF isProfane(fullText)
       THEN Verdict("rejected", TRUE, ProfanityReason)
     ELSE IF ~IsRelevant(fullText)
       THEN Verdict("rejected", TRUE, RelevanceReason)
     ELSE IF Len(Trim(content)) < MinContentLength
       THEN Verdict("rejected", TRUE, LengthReason)
     ELSE Verdict("published", FALSE, NULL)

moderateBlogContent(title, content, category) ==
  LET fullText == FullText(title, content, category)
  IN IF isProfane(fullText)
       THEN Verdict("rejected", TRUE, ProfanityReason)
     ELSE IF ~IsRelevant(fullText)
       THEN Verdict("rejected", TRUE, RelevanceReason)
     ELSE IF TooShort(content)
       THEN Verdict("rejected", TRUE, LengthReason)
     ELSE Verdict("pending", FALSE, NULL)

-----------------------------------------------------------------------------
(* Inputs of the screener check.                                           *)

W_fashion == <<"f","a","s","h","i","o","n">>
W_damn == <<"d","a","m","n">>

ScreenTitles ==
  { <<"M","y"," ","L","o","o","k">>,
    <<"C","a","r","s"," ","a","n","d"," ","E","n","g","i","n","e","s">>,
    <<"G","r","e","a","t"," ","O","u","t","f","i","t">>,
    <<"D","a","m","n"," ","L","o","o","k">>,
    <<"H","e","l","l","o">>,
    <<"T","R","E","N","D">>,
    <<>> }

ScreenContents ==
  { Repeat("x", MinContentLength - 50),
    Repeat("A", MinContentLength + 50),
    Repeat("x", MinContentLength - 1),
    Repeat("x", MinContentLength),
    <<" ">> \o Repeat("x", MinContentLength - 1) \o <<"\n">>,
    <<"\t">> \o Repeat("x", MinContentLength) \o <<" ">>,
    <<"s","t","y","l","e"," ">> \o Repeat("x", MinContentLength + 44),
    <<"S","h","o","p","p","i","n","g","."," ">> \o Repeat("x", MinContentLength - 11),
    W_damn \o <<" ">> \o Repeat("x", MinContentLength),
    Repeat("x", 50) \o W_damn \o Repeat("x", 50),
    <<"w","h","a","t"," ","t","h","e"," ","H","E","L","L","!">>,
    <<" "," "," ">>,
    <<>> }

ScreenCategories ==
  { W_fashion,
    <<"c","a","r","s">>,
    <<"B","e","a","u","t","y">>,
    <<"h","e","l","l">>,
    <<>> }

-----------------------------------------------------------------------------
(* Bounds of the model.                                                    *)

MaxArticles == 1    \* rows of the articles table
MaxInflight == 2    \* handler invocations awaiting the response of their write
MaxAttempts == 2    \* presses of Publish Article and Retry Submission
MaxUserBlogs == 2   \* rows of user_blogs when UserBlogs is opened
MaxViews == 1      \* views and likes an article collects
MaxWrites == 4      \* the clock reading after which no transition is applied

-----------------------------------------------------------------------------
VARIABLES
  arg,    \* the BlogContent passed to the screener
  ret,    \* what the screener returned; NULL before the call
  pc,     \* "call" before the screener ran, "done" after
  articles,           \* the articles table: id -> row or NoRow
  media,              \* the blog-images bucket: the blobs it holds
  now,                \* the clock new Date() reads
  page,               \* the admin page the browser shows: "MC", "AU", "AD", "AM", "UB" or "none"
  mcTab,              \* ModerateContent: selectedTab
  mcBlogs,            \* ModerateContent: blogs, id -> listed row or NoRow
  mcFlagReason,       \* ModerateContent: flagReason
  mcShowFlagModal,    \* ModerateContent: showFlagModal
  mcSelectedBlogId,   \* ModerateContent: selectedBlogId
  auPendingBlogs,     \* AdminUpload dashboard: ids listed in pendingBlogs
  auPendingApprovals, \* AdminUpload dashboard: stats.pendingApprovals
  adSubmissions,      \* AdminDashboard: ids listed in submissions
  adMessage,          \* AdminDashboard: message.type, or "none"
  adSubmissionAction, \* AdminDashboard: submissionAction.id, or NoId
  amBlogs,            \* AdminUpload manage tab: ids listed in blogs
  amMessage,          \* AdminUpload: message.type, or "none"
  amDeleteInProgress, \* AdminUpload: deleteInProgress, or NoId
  userBlogs,          \* the user_blogs table: a sequence of rows, NoRow once deleted
  sbSignedIn,         \* SubmitBlog: currentUserId is set
  sbForm,             \* SubmitBlog: formData
  sbIsSubmitting,     \* SubmitBlog: isSubmitting
  sbSubmitSuccess,    \* SubmitBlog: submitSuccess
  sbError,            \* SubmitBlog: error, "" or the name of the message shown
  sbAttempts,         \* SubmitBlog: submissionAttempts
  ubBlogs,            \* UserBlogs: blogs
  calls               \* handler invocations awaiting the response of their write

screenVars == <<arg, ret, pc>>
mcVars == <<mcTab, mcBlogs, mcFlagReason, mcShowFlagModal, mcSelectedBlogId>>
auVars == <<auPendingBlogs, auPendingApprovals>>
adVars == <<adSubmissions, adMessage, adSubmissionAction>>
amVars == <<amBlogs, amMessage, amDeleteInProgress>>
sbVars == <<sbSignedIn, sbForm, sbIsSubmitting, sbSubmitSuccess, sbError, sbAttempts>>
vars == <<screenVars, articles, media, now, page, mcVars, auVars, adVars, amVars,
          userBlogs, sbVars, ubBlogs, calls>>

-----------------------------------------------------------------------------
(* The articles table and the writes of the moderation views.              *)

Ids == 1..MaxArticles

\* selectedBlogId = null, submissionAction = null (row ids are positive)
NoId == 0

\* no row with this id
NoRow == [absent |-> TRUE]

Row(s, f, r) == [status |-> s, flagged |-> f, flag_reason |-> r]

\* the update written as an upsert
Update_Upsert(table, id, patch) ==
  [table EXCEPT ![id] =
     IF @ = NoRow THEN patch
     ELSE [f \in DOMAIN @ |-> IF f \in DOMAIN patch THEN patch[f] ELSE @[f]]]

\* .update(patch).eq('id', id): the row with this id, if there is one, takes
\* the fields of the patch and keeps its other fields
Update(table, id, patch) ==
  IF table[id] = NoRow THEN table
  ELSE [table EXCEPT ![id] =
          [f \in DOMAIN @ |-> IF f \in DOMAIN patch THEN patch[f] ELSE @[f]]]

\* .delete().eq('id', id)
Delete(table, id) == [table EXCEPT ![id] = NoRow]

\* .eq('status', tab) unless the tab is 'all'
Select(table, tab) ==
  [id \in Ids |-> IF table[id] # NoRow /\ (tab = "all" \/ table[id].status = tab)
                    THEN table[id] ELSE NoRow]

\* The blobs of the blog-images bucket that the image and additionalImages
\* columns of a row point to: the upload forms store the main image and the
\* additional images of an article under names of their own.
ImageColumns == {"image", "additionalImages"}

ImagesOf(table, id) ==
  IF table[id] = NoRow THEN {} ELSE {<<id, col>> : col \in ImageColumns}

\* the blobs of the bucket that were uploaded for the article id
MediaOf(store, id) == {b \in store : b[1] = id}

\* text typed into the flag-reason box
W_spam == <<"s","p","a","m">>
FlagReasonInputs == { <<>>, <<" ","\t">>, <<" ">> \o W_spam }

Tabs == {"pending", "published", "rejected", "all"}

\* The outcomes of a write: accepted by the store, or failed
Outcomes == {"ok", "error"}

\* calls without its i-th element
Without(q, i) == SubSeq(q, 1, i - 1) \o SubSeq(q, i + 1, Len(q))

-----------------------------------------------------------------------------
(* ModerateContent.                                                        *)
(*                                                                         *)
(* Each handler is an async function: it sends its write and awaits the    *)
(* response, and its continuation then updates the state of the view from  *)
(* the blogs of the render in which the handler was created. The write and *)
(* its outcome form one step, the continuation a later one (MC_Resume).    *)
(* The flag modal covers the page (fixed inset-0), so the buttons of the   *)
(* list are out of reach while it is shown. Its Flag button is disabled    *)
(* while the reason is blank; handleFlag repeats that test, and the model  *)
(* lets the handler run in either case.                                    *)

MC_ApprovePatch == [status |-> "published", flagged |-> FALSE, flag_reason |-> NULL]
MC_RejectPatch == [status |-> "rejected", flagged |-> FALSE, flag_reason |-> NULL]
\* the patch of Flag written with a status
MC_FlagPatch_ResetsStatus(reason) ==
  [status |-> "pending", flagged |-> TRUE, flag_reason |-> reason]

MC_FlagPatch(reason) == [flagged |-> TRUE, flag_reason |-> reason]
\* the patch of Remove Flag written without flag_reason
MC_RemoveFlagPatch_KeepReason == [flagged |-> FALSE]

MC_RemoveFlagPatch == [flagged |-> FALSE, flag_reason |-> NULL]

\* the write a ModerateContent handler sends
MC_Write(op, id, reason) ==
  CASE op = "approve" -> Update(articles, id, MC_ApprovePatch)
    [] op = "reject" -> Update(articles, id, MC_RejectPatch)
    [] op = "flag" -> Update(articles, id, MC_FlagPatch(reason))
    [] op = "unflag" -> Update(articles, id, MC_RemoveFlagPatch)
    [] op = "delete" -> Delete(articles, id)

\* the handler sends its write and awaits the response; blogs, selectedBlogId
\* and flagReason are those of the render the handler was created in
MC_Await(op, id, reason) ==
  /\ page = "MC"
  /\ Len(calls) < MaxInflight
  /\ \E res \in Outcomes :
       /\ articles' = IF res = "ok" THEN MC_Write(op, id, reason) ELSE articles
       /\ calls' = Append(calls, [view |-> "MC", op |-> op, id |-> id,
                                  reason |-> reason,
                                  blogs |-> IF res = "ok" THEN mcBlogs ELSE [b \in Ids |-> NoRow],
                                  res |-> res])
  /\ UNCHANGED <<screenVars, now, media, amVars, userBlogs, sbVars, ubBlogs, page, mcVars, auVars, adVars>>

\* fetchBlogs: the rows of the selected tab, or nothing on an error
MC_fetchBlogs ==
  /\ page = "MC"
  /\ ~mcShowFlagModal
  /\ \E res \in Outcomes :
       mcBlogs' = IF res = "ok" THEN Select(articles, mcTab) ELSE mcBlogs
  /\ UNCHANGED <<screenVars, now, media, amVars, userBlogs, sbVars, ubBlogs, page, articles, mcTab, mcFlagReason, mcShowFlagModal,
                 mcSelectedBlogId, auVars, adVars, calls>>

\* a status tab is clicked; the effect on selectedTab runs fetchBlogs
MC_setSelectedTab(tab) ==
  /\ page = "MC"
  /\ ~mcShowFlagModal
  /\ tab # mcTab
  /\ mcTab' = tab
  /\ \E res \in Outcomes :
       mcBlogs' = IF res = "ok" THEN Select(articles, tab) ELSE mcBlogs
  /\ UNCHANGED <<screenVars, now, media, amVars, userBlogs, sbVars, ubBlogs, page, articles, mcFlagReason, mcShowFlagModal,
                 mcSelectedBlogId, auVars, adVars, calls>>

\* the Approve button of a listed blog that is not shown as published
MC_handleApprove(id) ==
  /\ ~mcShowFlagModal
  /\ mcBlogs[id] # NoRow /\ mcBlogs[id].status # "published"
  /\ MC_Await("approve", id, NULL)

\* the Reject button of a listed blog that is not shown as rejected
MC_handleReject(id) ==
  /\ ~mcShowFlagModal
  /\ mcBlogs[id] # NoRow /\ mcBlogs[id].status # "rejected"
  /\ MC_Await("reject", id, NULL)

\* the Flag button of a listed blog that is not shown as flagged
MC_openFlagModal(id) ==
  /\ page = "MC"
  /\ ~mcShowFlagModal
  /\ mcBlogs[id] # NoRow /\ ~mcBlogs[id].flagged
  /\ mcSelectedBlogId' = id
  /\ mcShowFlagModal' = TRUE
  /\ UNCHANGED <<screenVars, now, media, amVars, userBlogs, sbVars, ubBlogs, page, articles, mcTab, mcBlogs, mcFlagReason, auVars,
                 adVars, calls>>

\* typing in the reason box of the modal
MC_setFlagReason(text) ==
  /\ page = "MC"
  /\ mcShowFlagModal
  /\ text # mcFlagReason
  /\ mcFlagReason' = text
  /\ UNCHANGED <<screenVars, now, media, amVars, userBlogs, sbVars, ubBlogs, page, articles, mcTab, mcBlogs, mcShowFlagModal,
                 mcSelectedBlogId, auVars, adVars, calls>>

\* the Cancel button of the modal
MC_cancelFlag ==
  /\ page = "MC"
  /\ mcShowFlagModal
  /\ mcShowFlagModal' = FALSE
  /\ mcFlagReason' = <<>>
  /\ mcSelectedBlogId' = NoId
  /\ UNCHANGED <<screenVars, now, media, amVars, userBlogs, sbVars, ubBlogs, page, articles, mcTab, mcBlogs, auVars, adVars, calls>>

\* the guard written without trim()
MC_flagGuard_NoTrim == mcSelectedBlogId # NoId /\ mcFlagReason # <<>>

\* if (!selectedBlogId || !flagReason.trim()) return;
MC_flagGuard == mcSelectedBlogId # NoId /\ Trim(mcFlagReason) # <<>>

\* the Flag button of the modal; without a selected blog or with a blank
\* reason the handler returns at once
MC_handleFlag ==
  /\ page = "MC"
  /\ mcShowFlagModal
  /\ IF MC_flagGuard
       THEN MC_Await("flag", mcSelectedBlogId, mcFlagReason)
       ELSE UNCHANGED vars

\* the Remove Flag button of a listed blog that is shown as flagged
MC_handleRemoveFlag(id) ==
  /\ ~mcShowFlagModal
  /\ mcBlogs[id] # NoRow /\ mcBlogs[id].flagged
  /\ MC_Await("unflag", id, NULL)

\* the Delete button of a listed blog, confirmed
MC_handleDelete(id) ==
  /\ ~mcShowFlagModal
  /\ mcBlogs[id] # NoRow
  /\ MC_Await("delete", id, NULL)

\* setBlogs(blogs.map(...)) / setBlogs(blogs.filter(...)) over the blogs of
\* the handler's render
MC_setBlogs(c) ==
  CASE c.op = "approve" -> Update(c.blogs, c.id, MC_ApprovePatch)
    [] c.op = "reject" -> Update(c.blogs, c.id, MC_RejectPatch)
    [] c.op = "flag" -> Update(c.blogs, c.id, MC_FlagPatch(c.reason))
    [] c.op = "unflag" -> Update(c.blogs, c.id, MC_RemoveFlagPatch)
    [] c.op = "delete" -> Delete(c.blogs, c.id)

\* the response of a ModerateContent write arrives: on an error the handler
\* logs it, otherwise it updates blogs (and, after Flag, closes the modal)
MC_Resume(i) ==
  LET c == calls[i]
  IN /\ c.view = "MC"
     /\ calls' = Without(calls, i)
     /\ IF c.res = "ok"
          THEN /\ mcBlogs' = MC_setBlogs(c)
               /\ IF c.op = "flag"
                    THEN /\ mcShowFlagModal' = FALSE
                         /\ mcFlagReason' = <<>>
                         /\ mcSelectedBlogId' = NoId
                    ELSE UNCHANGED <<mcShowFlagModal, mcFlagReason, mcSelectedBlogId>>
          ELSE UNCHANGED <<mcBlogs, mcShowFlagModal, mcFlagReason, mcSelectedBlogId>>
     /\ UNCHANGED <<screenVars, now, media, amVars, userBlogs, sbVars, ubBlogs, page, articles, mcTab, auVars, adVars>>

-----------------------------------------------------------------------------
(* The dashboard of AdminUpload (AvoureAdminDashboard).                    *)

AU_ApprovePatch == [status |-> "published"]
AU_RejectPatch == [status |-> "rejected"]

PendingIds(table) == {id \in Ids : table[id] # NoRow /\ table[id].status = "pending"}

AU_Await(op, id) ==
  /\ page = "AU"
  /\ id \in auPendingBlogs
  /\ Len(calls) < MaxInflight
  /\ \E res \in Outcomes :
       /\ articles' = IF res = "ok"
                        THEN Update(articles, id,
                                    IF op = "approve" THEN AU_ApprovePatch
                                                      ELSE AU_RejectPatch)
                        ELSE articles
       /\ calls' = Append(calls, [view |-> "AU", op |-> op, id |-> id,
                                  pendingBlogs |-> auPendingBlogs, res |-> res])
  /\ UNCHANGED <<screenVars, now, media, amVars, userBlogs, sbVars, ubBlogs, page, mcVars, auVars, adVars>>

AU_handleApprove(id) == AU_Await("approve", id)

AU_handleReject(id) == AU_Await("reject", id)

\* the continuation written without the test of the error
AU_Resume_NoErrorTest(i) ==
  LET c == calls[i]
  IN /\ c.view = "AU"
     /\ calls' = Without(calls, i)
     /\ auPendingBlogs' = auPendingBlogs \ {c.id}
     /\ auPendingApprovals' = auPendingApprovals - 1
     /\ UNCHANGED <<screenVars, now, media, amVars, userBlogs, sbVars, ubBlogs, page, articles, mcVars, adVars>>

\* the response arrives: the blog leaves pendingBlogs and the counter of
\* pending approvals is decremented
AU_Resume(i) ==
  LET c == calls[i]
  IN /\ c.view = "AU"
     /\ calls' = Without(calls, i)
     /\ IF c.res = "ok"
          THEN /\ auPendingBlogs' = c.pendingBlogs \ {c.id}
               /\ auPendingApprovals' = auPendingApprovals - 1
          ELSE UNCHANGED <<auPendingBlogs, auPendingApprovals>>
     /\ UNCHANGED <<screenVars, now, media, amVars, userBlogs, sbVars, ubBlogs, page, articles, mcVars, adVars>>

-----------------------------------------------------------------------------
(* AdminDashboard: the user submissions tab.                               *)

\* The requests of handleDeleteBlog (the same in AdminDashboard and in
\* AdminUpload): it reads the image columns of the row, deletes the row, and
\* on success asks the bucket to remove each blob the columns point to. A
\* failed read leaves it without blobs to remove, and a failed removal is
\* logged as a warning and leaves the blob in the bucket.
handleDeleteBlog(id, res) ==
  IF res = "ok"
    THEN /\ articles' = Delete(articles, id)
         /\ \E removed \in SUBSET ImagesOf(articles, id) : media' = media \ removed
    ELSE UNCHANGED <<articles, media>>

AD_StatusPatch(action) ==
  [status |-> IF action = "approve" THEN "published" ELSE "rejected"]

\* fetchSubmissions
AD_fetchSubmissions ==
  /\ page = "AD"
  /\ \E res \in Outcomes :
       IF res = "ok"
         THEN adSubmissions' = PendingIds(articles) /\ UNCHANGED adMessage
         ELSE adMessage' = "error" /\ UNCHANGED adSubmissions
  /\ UNCHANGED <<screenVars, now, media, amVars, userBlogs, sbVars, ubBlogs, page, articles, mcVars, auVars, adSubmissionAction, calls>>

\* handleSubmissionAction(id, 'approve' | 'reject' | 'delete'); the buttons
\* of a submission are disabled while it is the submissionAction. 'delete',
\* confirmed in both dialogs, runs handleDeleteBlog, which reports its own
\* outcome and returns normally.
AD_handleSubmissionAction(id, action) ==
  /\ page = "AD"
  /\ id \in adSubmissions
  /\ adSubmissionAction # id
  /\ Len(calls) < MaxInflight
  /\ adSubmissionAction' = id
  /\ \E res \in Outcomes :
       /\ IF action = "delete"
            THEN handleDeleteBlog(id, res)
            ELSE /\ articles' = IF res = "ok"
                                  THEN Update(articles, id, AD_StatusPatch(action))
                                  ELSE articles
                 /\ UNCHANGED media
       /\ calls' = Append(calls, [view |-> "AD", op |-> action, id |-> id,
                                  submissions |-> adSubmissions, res |-> res])
  /\ UNCHANGED <<screenVars, now, amVars, userBlogs, sbVars, ubBlogs, page, mcVars, auVars, adSubmissions, adMessage>>

AD_Resume(i) ==
  LET c == calls[i]
  IN /\ c.view = "AD"
     /\ calls' = Without(calls, i)
     /\ IF c.res = "ok"
          THEN /\ adSubmissions' = c.submissions \ {c.id}
               /\ adMessage' = "success"
          ELSE /\ adMessage' = "error"
               /\ UNCHANGED adSubmissions
     /\ adSubmissionAction' = NoId
     /\ UNCHANGED <<screenVars, now, media, amVars, userBlogs, sbVars, ubBlogs, page, articles, mcVars, auVars>>

-----------------------------------------------------------------------------
(* AdminUpload (AdminPage): the manage tab.                                *)

\* fetchBlogs, run when the manage tab is activated
AM_fetchBlogs ==
  /\ page = "AM"
  /\ \E res \in Outcomes :
       IF res = "ok"
         THEN amBlogs' = {id \in Ids : articles[id] # NoRow} /\ UNCHANGED amMessage
         ELSE amMessage' = "error" /\ UNCHANGED amBlogs
  /\ UNCHANGED <<screenVars, now, articles, media, page, mcVars, auVars, adVars,
                 amDeleteInProgress, userBlogs, sbVars, ubBlogs, calls>>

\* the Delete button of a listed blog, confirmed; it is disabled while the
\* blog is the one deleteInProgress names
AM_handleDeleteBlog(id) ==
  /\ page = "AM"
  /\ id \in amBlogs
  /\ amDeleteInProgress # id
  /\ Len(calls) < MaxInflight
  /\ amDeleteInProgress' = id
  /\ \E res \in Outcomes :
       /\ handleDeleteBlog(id, res)
       /\ calls' = Append(calls, [view |-> "AM", op |-> "delete", id |-> id,
                                  blogs |-> amBlogs, res |-> res])
  /\ UNCHANGED <<screenVars, now, page, mcVars, auVars, adVars, amBlogs, amMessage,
                 userBlogs, sbVars, ubBlogs>>

\* handleDeleteBlog continues after its requests: it drops the blog from the
\* blogs of its render and reports success, or reports the error of the delete
AM_Resume(i) ==
  LET c == calls[i]
  IN /\ c.view = "AM"
     /\ calls' = Without(calls, i)
     /\ IF c.res = "ok"
          THEN /\ amBlogs' = c.blogs \ {c.id}
               /\ amMessage' = "success"
          ELSE /\ amMessage' = "error"
               /\ UNCHANGED amBlogs
     /\ amDeleteInProgress' = NoId
     /\ UNCHANGED <<screenVars, now, articles, media, page, mcVars, auVars, adVars,
                    userBlogs, sbVars, ubBlogs>>

-----------------------------------------------------------------------------
(* uploadImageToStorage, the same in AdminDashboard and AdminUpload.       *)

\* 5 * 1024 * 1024
MaxFileSize == 5 * 1024 * 1024

\* file.size of the files an administrator selects
FileSizes ==
  { 0, 1, 1024, 1024 * 1024, 2 * 1024 * 1024, 3 * 1024 * 1024, 4 * 1024 * 1024,
    MaxFileSize - 1024, MaxFileSize - 1, MaxFileSize, MaxFileSize + 1,
    MaxFileSize + 1024, 6 * 1024 * 1024, 10 * 1024 * 1024, 100 * 1024 * 1024 }

\* the size test written with >=
TooLarge_Inclusive(size) == size >= MaxFileSize

\* file.size > 5 * 1024 * 1024
TooLarge(size) == size > MaxFileSize

\* uploadImageToStorage(file): issued tells whether storage.upload was called,
\* stored whether the bucket took the blob, result is "url" when the public
\* URL is returned and "error" when the function throws. upload is the
\* outcome of storage.upload and hasUrl tells whether getPublicUrl returns a
\* publicUrl.
uploadImageToStorage(size, upload, hasUrl) ==
  IF TooLarge(size)
    THEN [issued |-> FALSE, stored |-> FALSE, result |-> "error"]
  ELSE IF upload = "error"
    THEN [issued |-> TRUE, stored |-> FALSE, result |-> "error"]
  ELSE IF ~hasUrl
    THEN [issued |-> TRUE, stored |-> TRUE, result |-> "error"]
  ELSE [issued |-> TRUE, stored |-> TRUE, result |-> "url"]

\* one call of uploadImageToStorage on the file arg describes
UploadImage ==
  /\ pc = "call"
  /\ ret' = uploadImageToStorage(arg.size, arg.upload, arg.hasUrl)
  /\ media' = IF ret'.stored THEN media \cup {<<NoId, "image">>} ELSE media
  /\ pc' = "done"
  /\ UNCHANGED <<arg, now, articles, page, mcVars, auVars, adVars, amVars,
                 userBlogs, sbVars, ubBlogs, calls>>

-----------------------------------------------------------------------------
(* The upload forms of AdminDashboard and AdminUpload (handleSubmit).      *)

\* The main image of the form is a selected file, an image URL, or missing;
\* an inline image is a selected file, or there is none.
MainImageInputs == {"file", "url", "none"}
InlineImageInputs == {"file", "none"}

\* the status a row of articles gets when the insert names none: the one
\* that puts the row into the pending queues of the moderation views
StatusDefault == "pending"

\* the status fields of the row an insert stores
InsertedArticle(payload) ==
  Row(IF "status" \in DOMAIN payload THEN payload.status ELSE StatusDefault,
      FALSE, NULL)

\* the columns of the two inserts that are not text of the form
AD_InsertPayload == [likes |-> 0, comments |-> 0, views |-> 0, status |-> "published"]
AM_InsertPayload == [likes |-> 0, comments |-> 0, views |-> 0]

\* ids under which nothing was stored yet
FreeIds == {id \in Ids : articles[id] = NoRow /\ MediaOf(media, id) = {}}

\* handleSubmit written with the uploads undone when a later step fails
Submitted_RollsBack(payload, main, inline, up1, up2, ins) ==
  LET id == CHOOSE i \in FreeIds : \A j \in FreeIds : i <= j
      ok == /\ main = "url" \/ (main = "file" /\ up1 = "ok")
            /\ inline = "file" => up2 = "ok"
            /\ ins = "ok"
      uploaded == {<<id, "image">> : x \in {m \in {main} : m = "file"}}
                    \cup {<<id, "additionalImages">> :
                            x \in {m \in {inline} : m = "file"}}
  IN [articles |-> IF ok THEN [articles EXCEPT ![id] = InsertedArticle(payload)]
                         ELSE articles,
      media |-> IF ok THEN media \cup uploaded ELSE media,
      message |-> IF ok THEN "success" ELSE "error"]

\* handleSubmit: it uploads the main image if a file is selected (without
\* file or URL it stops), then the inline image, then inserts the row; the
\* first failure ends it with an error message, and what was uploaded before
\* stays in the bucket
Submitted(payload, main, inline, up1, up2, ins) ==
  LET id == CHOOSE i \in FreeIds : \A j \in FreeIds : i <= j
      ok1 == main = "url" \/ (main = "file" /\ up1 = "ok")
      media1 == IF main = "file" /\ up1 = "ok"
                  THEN media \cup {<<id, "image">>} ELSE media
      ok2 == ok1 /\ (inline = "file" => up2 = "ok")
      media2 == IF ok2 /\ inline = "file"
                  THEN media1 \cup {<<id, "additionalImages">>} ELSE media1
      ok3 == ok2 /\ ins = "ok"
  IN [articles |-> IF ok3 THEN [articles EXCEPT ![id] = InsertedArticle(payload)]
                          ELSE articles,
      media |-> media2,
      message |-> IF ok3 THEN "success" ELSE "error"]

\* the upload form of AdminDashboard
AD_handleSubmit(main, inline) ==
  /\ page = "AD"
  /\ FreeIds # {}
  /\ \E up1 \in Outcomes, up2 \in Outcomes, ins \in Outcomes :
       LET r == Submitted(AD_InsertPayload, main, inline, up1, up2, ins)
       IN /\ articles' = r.articles
          /\ media' = r.media
          /\ adMessage' = r.message
  /\ UNCHANGED <<screenVars, now, page, mcVars, auVars, adSubmissions,
                 adSubmissionAction, amVars, userBlogs, sbVars, ubBlogs, calls>>

\* the upload form of AdminUpload
AM_handleSubmit(main, inline) ==
  /\ page = "AM"
  /\ FreeIds # {}
  /\ \E up1 \in Outcomes, up2 \in Outcomes, ins \in Outcomes :
       LET r == Submitted(AM_InsertPayload, main, inline, up1, up2, ins)
       IN /\ articles' = r.articles
          /\ media' = r.media
          /\ amMessage' = r.message
  /\ UNCHANGED <<screenVars, now, page, mcVars, auVars, adVars, amBlogs,
                 amDeleteInProgress, userBlogs, sbVars, ubBlogs, calls>>

-----------------------------------------------------------------------------
(* The writes of the moderator transitions, applied to a stored record one *)
(* after another.                                                          *)

\* a row with its date column
DatedRow(row, date) == row @@ [date |-> date]

\* the patch of handleApprove in the dashboard of AdminUpload with its date
\* column: date: new Date().toISOString()
AU_ApprovePatchAt(date) == AU_ApprovePatch @@ [date |-> date]

\* the transitions of ModerateContent and of the dashboard of AdminUpload
Transitions ==
  [view : {"MC"}, op : {"approve", "reject", "unflag"}, reason : {NULL}]
    \cup [view : {"MC"}, op : {"flag"}, reason : FlagReasonInputs]
    \cup [view : {"AU"}, op : {"approve", "reject"}, reason : {NULL}]

\* the write refused when another moderator has decided the record already
Written_ConflictChecked(table, t, id, date) ==
  IF table[id].status # "pending" /\ t.op \in {"approve", "reject"}
    THEN table
    ELSE Update(table, id,
                CASE t.view = "MC" /\ t.op = "approve" -> MC_ApprovePatch
                  [] t.view = "MC" /\ t.op = "reject" -> MC_RejectPatch
                  [] t.view = "MC" /\ t.op = "flag" -> MC_FlagPatch(t.reason)
                  [] t.view = "MC" /\ t.op = "unflag" -> MC_RemoveFlagPatch
                  [] t.view = "AU" /\ t.op = "approve" -> AU_ApprovePatchAt(date)
                  [] t.view = "AU" /\ t.op = "reject" -> AU_RejectPatch)

\* the table after the write of transition t on the row id at the time date
Written(table, t, id, date) ==
  CASE t.view = "MC" /\ t.op = "approve" -> Update(table, id, MC_ApprovePatch)
    [] t.view = "MC" /\ t.op = "reject" -> Update(table, id, MC_RejectPatch)
    [] t.view = "MC" /\ t.op = "flag" -> Update(table, id, MC_FlagPatch(t.reason))
    [] t.view = "MC" /\ t.op = "unflag" -> Update(table, id, MC_RemoveFlagPatch)
    [] t.view = "AU" /\ t.op = "approve" -> Update(table, id, AU_ApprovePatchAt(date))
    [] t.view = "AU" /\ t.op = "reject" -> Update(table, id, AU_RejectPatch)

\* no transition applied yet
NoTransition == [view |-> "none", op |-> "none", reason |-> NULL, id |-> NoId]

\* A transition is applied to the row id and its write succeeds: arg keeps the
\* transition and ret the row as it was before. handleFlag sends no write for
\* a blank reason.
Apply(t, id) ==
  /\ now < MaxWrites
  /\ t.op = "flag" => Trim(t.reason) # <<>>
  /\ articles' = Written(articles, t, id, now)
  /\ arg' = t @@ [id |-> id]
  /\ ret' = articles[id]
  /\ now' = now + 1
  /\ UNCHANGED <<pc, media, page, mcVars, auVars, adVars, amVars, userBlogs, sbVars,
                 ubBlogs, calls>>

-----------------------------------------------------------------------------
(* Navigation between the admin pages.                                     *)

Pages == {"MC", "AU", "AD", "AM"}

\* The browser opens (or reloads) an admin page. The component that was shown
\* is unmounted: its state is lost and the continuations of its handlers set
\* no state any more. The component of the new page starts from its initial
\* state and its mount effect runs: ModerateContent fetches the pending tab;
\* the dashboard of AdminUpload counts the pending articles and then fetches
\* them, and an error of either request ends the effect; AdminDashboard
\* fetches its submissions, and AdminUpload its blogs, when their tab is
\* activated.
Open(p) ==
  /\ page' = p
  /\ calls' = <<>>
  /\ mcTab' = "pending"
  /\ mcFlagReason' = <<>>
  /\ mcShowFlagModal' = FALSE
  /\ mcSelectedBlogId' = NoId
  /\ adSubmissions' = {}
  /\ adMessage' = "none"
  /\ adSubmissionAction' = NoId
  /\ amBlogs' = {}
  /\ amMessage' = "none"
  /\ amDeleteInProgress' = NoId
  /\ \E res \in Outcomes, res2 \in Outcomes :
       /\ mcBlogs' = IF p = "MC" /\ res = "ok" THEN Select(articles, "pending")
                                               ELSE [id \in Ids |-> NoRow]
       /\ auPendingApprovals' = IF p = "AU" /\ res = "ok"
                                  THEN Cardinality(PendingIds(articles)) ELSE 0
       /\ auPendingBlogs' = IF p = "AU" /\ res = "ok" /\ res2 = "ok"
                              THEN PendingIds(articles) ELSE {}
  /\ UNCHANGED <<screenVars, now, media, userBlogs, sbVars, ubBlogs, articles>>

-----------------------------------------------------------------------------
(* SubmitBlog: the form a signed-in user submits an article with.          *)

\* what is typed into the title and the content boxes
T_MyLook == <<"M","y"," ","L","o","o","k">>
T_DamnLook == <<"D","a","m","n"," ","L","o","o","k">>

\* formData; rest tells whether the excerpt, the author name and the first
\* image URL are "filled", or one of them is "empty", or none is empty but the
\* excerpt or the author name is "blank" (whitespace only)
Form(t, c, cat, rest) == [title |-> t, content |-> c, category |-> cat, rest |-> rest]

\* formData of a freshly mounted form
EmptyForm == Form(<<>>, <<>>, W_fashion, "empty")

\* The forms a user leaves in the boxes: one that passes the screener, one
\* with a denylisted word, one with content one character short, one with a
\* blank title, one with blank content, one with a blank excerpt, and one
\* whose title was deleted
FormInputs ==
  { Form(T_MyLook, Repeat("x", MinContentLength), W_fashion, "filled"),
    Form(T_DamnLook, Repeat("x", MinContentLength), W_fashion, "filled"),
    Form(T_MyLook, Repeat("x", MinContentLength - 1), W_fashion, "filled"),
    Form(<<" ">>, Repeat("x", MinContentLength), W_fashion, "filled"),
    Form(T_MyLook, <<" ", "\n">>, W_fashion, "filled"),
    Form(T_MyLook, Repeat("x", MinContentLength), W_fashion, "blank"),
    Form(<<>>, Repeat("x", MinContentLength), W_fashion, "filled") }

\* a row of user_blogs as UserBlogs reads it: the form writes the status
\* fields and the table supplies approved
UserRow(post, approved) ==
  [status |-> post.status, flagged |-> post.flagged,
   flag_reason |-> post.flag_reason, approved |-> approved]

\* How the race between the screener and its 5-second timer settles: with the
\* screener's verdict, with an error thrown by the screener, or with the
\* rejection of the timer
ScreeningOutcomes == {"verdict", "error", "timeout"}

\* the initial moderationResult written with status published
DefaultModerationResult_Published == Verdict("published", FALSE, NULL)

\* let moderationResult = { status: "pending", flagged: false, flag_reason: null }
DefaultModerationResult == Verdict("pending", FALSE, NULL)

\* the verdict awaited without the try/catch and the timer
ModerationResult_AlwaysVerdict(form, outcome) ==
  moderateBlogContent(form.title, form.content, form.category)

\* moderationResult after the try/catch around the race
ModerationResult(form, outcome) ==
  IF outcome = "verdict"
    THEN moderateBlogContent(form.title, form.content, form.category)
    ELSE DefaultModerationResult

\* blogPost written without the reason of the verdict
BlogPost_DropsReason(m) ==
  [status |-> IF m.status = "" THEN "pending" ELSE m.status,
   flagged |-> m.flagged,
   flag_reason |-> NULL]

\* the status fields of blogPost: moderationResult?.x || default
BlogPost(m) ==
  [status |-> IF m.status = "" THEN "pending" ELSE m.status,
   flagged |-> m.flagged,
   flag_reason |-> IF m.flag_reason = <<>> THEN NULL ELSE m.flag_reason]

\* An invocation of submitFormToSupabase that awaits the database: moderated
\* tells whether the screening race assigned moderationResult or its catch
\* block ran, post holds the status fields of blogPost, and error is the error
\* state of the render the handler was created in
Flow(pc0, form, outcome, error, retry) ==
  [view |-> "SB", pc |-> pc0, moderated |-> (outcome = "verdict"),
   post |-> BlogPost(ModerationResult(form, outcome)),
   error |-> error, retry |-> retry]

\* the invocations in cs that await the request pc0
SubmitFlowsAt(cs, pc0) ==
  {i \in 1..Len(cs) : cs[i].view = "SB" /\ cs[i].pc = pc0}

\* typing into the form; its inputs are disabled while isSubmitting
SB_handleChange(form) ==
  /\ ~sbIsSubmitting
  /\ form # sbForm
  /\ sbForm' = form
  /\ UNCHANGED <<screenVars, now, media, amVars, articles, page, mcVars, auVars, adVars, userBlogs,
                 sbSignedIn, sbIsSubmitting, sbSubmitSuccess, sbError, sbAttempts,
                 ubBlogs, calls>>

\* the message handleSubmit refuses the form with, "" if it accepts it
ValidationError ==
  IF ~sbSignedIn THEN "signin"
  ELSE IF Trim(sbForm.title) = <<>> THEN "title"
  ELSE IF Trim(sbForm.content) = <<>> THEN "content"
  ELSE IF sbForm.rest # "filled" THEN "fields"
  ELSE ""

\* the browser submits the form only with its required inputs non-empty
RequiredFilled ==
  sbForm.title # <<>> /\ sbForm.content # <<>> /\ sbForm.rest # "empty"

\* handleSubmit, up to the first request submitFormToSupabase awaits; the
\* Publish Article button is disabled while isSubmitting or submitSuccess
SB_handleSubmit ==
  /\ ~sbIsSubmitting /\ ~sbSubmitSuccess
  /\ RequiredFilled
  /\ sbAttempts < MaxAttempts
  /\ sbAttempts' = sbAttempts + 1
  /\ sbSubmitSuccess' = FALSE
  /\ IF ValidationError # ""
       THEN /\ sbError' = ValidationError
            /\ sbIsSubmitting' = FALSE
            /\ UNCHANGED calls
       ELSE /\ Len(calls) < MaxInflight
            /\ sbError' = ""
            /\ sbIsSubmitting' = TRUE
            /\ \E outcome \in ScreeningOutcomes :
                 calls' = Append(calls,
                            Flow("count", sbForm, outcome, sbError, FALSE))
  /\ UNCHANGED <<screenVars, now, media, amVars, articles, page, mcVars, auVars, adVars, userBlogs,
                 sbSignedIn, sbForm, ubBlogs>>

\* retrySubmission, shown with an error once a submission was attempted; it
\* calls submitFormToSupabase without validating the form
SB_retrySubmission ==
  /\ sbError # "" /\ ~sbIsSubmitting /\ sbAttempts > 0
  /\ sbAttempts < MaxAttempts
  /\ sbAttempts' = sbAttempts + 1
  /\ IF ~sbSignedIn
       THEN /\ sbError' = "signin"
            /\ sbIsSubmitting' = FALSE
            /\ UNCHANGED calls
       ELSE /\ Len(calls) < MaxInflight
            /\ sbError' = ""
            /\ sbIsSubmitting' = TRUE
            /\ \E outcome \in ScreeningOutcomes :
                 calls' = Append(calls,
                            Flow("count", sbForm, outcome, sbError, TRUE))
  /\ UNCHANGED <<screenVars, now, media, amVars, articles, page, mcVars, auVars, adVars, userBlogs,
                 sbSignedIn, sbForm, sbSubmitSuccess, ubBlogs>>

\* the error state after submitFormToSupabase threw: its catch block tests the
\* error state of its render, not the exception; retrySubmission's own catch
\* then sets its message
ErrorAfterThrow(c, shown) ==
  IF c.retry THEN "retry"
  ELSE IF c.error = "" THEN "unknown"
  ELSE shown

\* the throw written as a new try of the insert
SB_Throw_TriesAgain(i, shown) ==
  /\ calls' = [calls EXCEPT ![i].pc = "insert"]
  /\ UNCHANGED sbVars

\* the throw written as a reported success
SB_Throw_ReportsSuccess(i, shown) ==
  /\ sbError' = sbError
  /\ sbSubmitSuccess' = TRUE
  /\ sbIsSubmitting' = FALSE
  /\ calls' = Without(calls, i)
  /\ UNCHANGED <<sbSignedIn, sbForm, sbAttempts>>

\* submitFormToSupabase throws: finally clears isSubmitting
SB_Throw(i, shown) ==
  /\ sbError' = ErrorAfterThrow(calls[i], shown)
  /\ sbIsSubmitting' = FALSE
  /\ calls' = Without(calls, i)
  /\ UNCHANGED <<sbSignedIn, sbForm, sbSubmitSuccess, sbAttempts>>

\* the response of the count request that precedes the insert
SB_countCheck(i) ==
  /\ calls[i].view = "SB" /\ calls[i].pc = "count"
  /\ \E res \in Outcomes :
       IF res = "ok"
         THEN /\ calls' = [calls EXCEPT ![i].pc = "insert"]
              /\ UNCHANGED sbVars
         ELSE SB_Throw(i, "dbcheck")
  /\ UNCHANGED <<screenVars, now, media, amVars, articles, page, mcVars, auVars, adVars, userBlogs,
                 ubBlogs>>

\* The race between the insert and its 10-second timer settles. When the timer
\* wins, the insert may still have reached the table.
SB_insert(i) ==
  /\ calls[i].view = "SB" /\ calls[i].pc = "insert"
  /\ \E res \in {"ok", "error", "timeout"}, landed \in BOOLEAN :
       CASE res = "ok" ->
              /\ userBlogs' = Append(userBlogs, calls[i].post)
              /\ sbSubmitSuccess' = TRUE
              /\ sbForm' = EmptyForm
              /\ sbIsSubmitting' = FALSE
              /\ calls' = Without(calls, i)
              /\ UNCHANGED <<sbSignedIn, sbError, sbAttempts>>
         [] res = "error" ->
              /\ SB_Throw(i, "insert")
              /\ UNCHANGED userBlogs
         [] res = "timeout" ->
              /\ SB_Throw(i, sbError)
              /\ userBlogs' = IF landed
                                THEN Append(userBlogs, calls[i].post)
                                ELSE userBlogs
  /\ UNCHANGED <<screenVars, now, media, amVars, articles, page, mcVars, auVars, adVars, ubBlogs>>

\* the 30-second timer written without setIsSubmitting(false)
SB_submissionTimeout_OnlyMessage ==
  /\ sbIsSubmitting /\ ~sbSubmitSuccess /\ sbAttempts > 0
  /\ sbError' = "slow"
  /\ UNCHANGED <<screenVars, now, media, amVars, articles, page, mcVars, auVars, adVars, userBlogs,
                 sbSignedIn, sbForm, sbIsSubmitting, sbSubmitSuccess, sbAttempts, ubBlogs, calls>>

\* the 30-second timer started while isSubmitting
SB_submissionTimeout ==
  /\ sbIsSubmitting /\ ~sbSubmitSuccess /\ sbAttempts > 0
  /\ sbError' = "slow"
  /\ sbIsSubmitting' = FALSE
  /\ UNCHANGED <<screenVars, now, media, amVars, articles, page, mcVars, auVars, adVars, userBlogs,
                 sbSignedIn, sbForm, sbSubmitSuccess, sbAttempts, ubBlogs, calls>>

\* the posts of the flows of cs, from the i-th on, whose index is in landed
RECURSIVE PostsOf(_, _, _)
PostsOf(cs, landed, i) ==
  IF i > Len(cs) THEN <<>>
  ELSE (IF i \in landed THEN <<cs[i].post>> ELSE <<>>) \o PostsOf(cs, landed, i + 1)

\* Two seconds after a successful insert the browser leaves for /blogs. The
\* form is unmounted: the continuations of its requests never run and none of
\* its buttons can be pressed any more, which the model records by keeping
\* submitSuccess; an insert that was sent may still reach the table.
SB_redirect ==
  /\ sbSubmitSuccess
  /\ sbIsSubmitting' = FALSE
  /\ sbError' = ""
  /\ calls' = <<>>
  /\ \E landed \in SUBSET SubmitFlowsAt(calls, "insert") :
       userBlogs' = userBlogs \o PostsOf(calls, landed, 1)
  /\ UNCHANGED <<screenVars, now, media, amVars, articles, page, mcVars, auVars, adVars,
                 sbSignedIn, sbForm, sbSubmitSuccess, sbAttempts, ubBlogs>>

\* cancelSubmission
SB_cancelSubmission ==
  /\ sbIsSubmitting
  /\ sbError' = "cancelled"
  /\ sbIsSubmitting' = FALSE
  /\ UNCHANGED <<screenVars, now, media, amVars, articles, page, mcVars, auVars, adVars, userBlogs,
                 sbSignedIn, sbForm, sbSubmitSuccess, sbAttempts, ubBlogs, calls>>

-----------------------------------------------------------------------------
(* ArticlePage: a reader opens an article and likes it. The reader's       *)
(* browser keeps the route parameter in arg, the article state in ret and  *)
(* in pc whether an article is "shown".                                    *)

\* a row of articles with its counters
Counted(row, views, likes) == row @@ [views |-> views, likes |-> likes]

\* .update({ views: (articleData.views || 0) + 1 })
AP_ViewsPatch(articleData) == [views |-> articleData.views + 1]

\* the like written with the whole article state: {...article, likes}
AP_LikesPatch_WholeArticle(article) == [article EXCEPT !.likes = @ + 1]

\* .update({ likes: newLikeCount }), newLikeCount = (article.likes || 0) + 1
AP_LikesPatch(article) == [likes |-> article.likes + 1]

\* fetchArticle, the effect of the route parameter: the select of the row,
\* whose error (a missing row included) ends it, then the update of views,
\* whose error is not looked at
AP_fetchArticle(id) ==
  /\ arg' = [id |-> id]
  /\ \E res \in Outcomes, res2 \in Outcomes :
       IF res = "ok" /\ articles[id] # NoRow
         THEN /\ articles[id].views < MaxViews
              /\ ret' = articles[id]
              /\ pc' = "shown"
              /\ articles' = IF res2 = "ok"
                               THEN Update(articles, id, AP_ViewsPatch(articles[id]))
                               ELSE articles
         ELSE /\ ret' = NULL
              /\ pc' = "failed"
              /\ UNCHANGED articles
  /\ UNCHANGED <<now, media, page, mcVars, auVars, adVars, amVars, userBlogs,
                 sbVars, ubBlogs, calls>>

\* handleLike: it returns without an article; the error of the update is not
\* looked at, and the article state gets the new count
AP_handleLike ==
  /\ pc = "shown"
  /\ ret.likes < MaxViews
  /\ \E res \in Outcomes :
       articles' = IF res = "ok"
                     THEN Update(articles, arg.id, AP_LikesPatch(ret))
                     ELSE articles
  /\ ret' = [ret EXCEPT !.likes = @ + 1]
  /\ UNCHANGED <<arg, pc, now, media, page, mcVars, auVars, adVars, amVars,
                 userBlogs, sbVars, ubBlogs, calls>>

-----------------------------------------------------------------------------
(* UserBlogs: the admin view of user_blogs.                                *)

UB_ApprovePatch == [approved |-> TRUE, flagged |-> FALSE]
UB_FlagPatch == [flagged |-> TRUE, approved |-> FALSE]

\* the rows a handler of UserBlogs can be called for
UB_Listed(id) == id \in DOMAIN ubBlogs /\ ubBlogs[id] # NoRow

\* the table after the write of a handler; a row added since the list was
\* fetched keeps its place
UB_Write(op, id) ==
  CASE op = "approve" -> Update(userBlogs, id, UB_ApprovePatch)
    [] op = "flag" -> Update(userBlogs, id, UB_FlagPatch)
    [] op = "delete" -> Delete(userBlogs, id)

\* fetchBlogs, run when UserBlogs mounts: a reload of the page, which drops
\* the continuations of the component it replaces
UB_fetchBlogs ==
  /\ page = "UB"
  /\ \E res \in Outcomes : ubBlogs' = IF res = "ok" THEN userBlogs ELSE <<>>
  /\ calls' = SelectSeq(calls, LAMBDA c : c.view # "UB")
  /\ UNCHANGED <<screenVars, now, media, amVars, articles, page, mcVars, auVars, adVars, userBlogs, sbVars>>

UB_Await(op, id) ==
  /\ page = "UB"
  /\ UB_Listed(id)
  /\ Len(calls) < MaxInflight
  /\ \E res \in Outcomes :
       /\ userBlogs' = IF res = "ok" THEN UB_Write(op, id) ELSE userBlogs
       /\ calls' = Append(calls, [view |-> "UB", op |-> op, id |-> id,
                                  blogs |-> IF res = "ok" THEN ubBlogs ELSE <<>>,
                                  res |-> res])
  /\ UNCHANGED <<screenVars, now, media, amVars, articles, page, mcVars, auVars, adVars, sbVars, ubBlogs>>

\* the Approve button of a blog that is not shown as approved
UB_handleApprove(id) == UB_Listed(id) /\ ~ubBlogs[id].approved /\ UB_Await("approve", id)

\* the Flag button of a blog that is not shown as flagged
UB_handleFlag(id) == UB_Listed(id) /\ ~ubBlogs[id].flagged /\ UB_Await("flag", id)

\* the Delete button, confirmed
UB_handleDelete(id) == UB_Await("delete", id)

\* setBlogs(blogs.map(...)) / setBlogs(blogs.filter(...))
UB_setBlogs(c) ==
  CASE c.op = "approve" -> Update(c.blogs, c.id, UB_ApprovePatch)
    [] c.op = "flag" -> Update(c.blogs, c.id, UB_FlagPatch)
    [] c.op = "delete" -> Delete(c.blogs, c.id)

UB_Resume(i) ==
  /\ calls[i].view = "UB"
  /\ calls' = Without(calls, i)
  /\ ubBlogs' = IF calls[i].res = "ok" THEN UB_setBlogs(calls[i]) ELSE ubBlogs
  /\ UNCHANGED <<screenVars, now, media, amVars, articles, page, mcVars, auVars, adVars, userBlogs, sbVars>>

-----------------------------------------------------------------------------
(* Specifications.                                                         *)

\* the rows a submission starts with: the verdicts of the screener, the
\* default applied when screening fails, and an administrator's own post
\* the row AdminDashboard.handleSubmit inserts ("Auto-publish admin posts")
AdminPublishedRow == Row("published", FALSE, NULL)

\* a row awaiting moderation, as the pending tab and the dashboards list it
PendingRow == Row("pending", FALSE, NULL)

InitialRows == { PendingRow, AdminPublishedRow }

\* a pending row a moderator has flagged
FlaggedRow == Row("pending", TRUE, W_spam)

ScreenIdle ==
  /\ arg = NULL
  /\ ret = NULL
  /\ pc = "idle"

\* the state of the three views before they are mounted
ViewsUnmounted ==
  /\ mcTab = "pending"
  /\ mcBlogs = [id \in Ids |-> NoRow]
  /\ mcFlagReason = <<>>
  /\ mcShowFlagModal = FALSE
  /\ mcSelectedBlogId = NoId
  /\ auPendingBlogs = {}
  /\ auPendingApprovals = 0
  /\ adSubmissions = {}
  /\ adMessage = "none"
  /\ adSubmissionAction = NoId
  /\ amBlogs = {}
  /\ amMessage = "none"
  /\ amDeleteInProgress = NoId
  /\ calls = <<>>

ModerationIdle ==
  /\ articles = [id \in Ids |-> NoRow]
  /\ media = {}
  /\ now = 0
  /\ page = "none"
  /\ ViewsUnmounted

\* no user_blogs yet, the form and UserBlogs as they mount
SubmitIdle ==
  /\ userBlogs = <<>>
  /\ sbSignedIn = TRUE
  /\ sbForm = EmptyForm
  /\ sbIsSubmitting = FALSE
  /\ sbSubmitSuccess = FALSE
  /\ sbError = ""
  /\ sbAttempts = 0
  /\ ubBlogs = <<>>

InitScreen ==
  /\ arg \in [title : ScreenTitles, content : ScreenContents,
              category : ScreenCategories]
  /\ ret = NULL
  /\ pc = "call"
  /\ ModerationIdle
  /\ SubmitIdle

Screen ==
  /\ pc = "call"
  /\ ret' = moderateBlogContent(arg.title, arg.content, arg.category)
  /\ pc' = "done"
  /\ UNCHANGED <<arg, now, media, amVars, articles, page, mcVars, auVars, adVars, userBlogs, sbVars,
                 ubBlogs, calls>>

NextScreen == Screen

SpecScreen == InitScreen /\ [][NextScreen]_vars

\* The transitions are applied to records of every status that are not
\* flagged, as the screener and the moderators leave them.
InitApply ==
  /\ arg = NoTransition
  /\ ret = NULL
  /\ pc = "idle"
  /\ articles \in [Ids -> {DatedRow(Row(s, FALSE, NULL), 0) :
                             s \in {"pending", "published", "rejected"}}]
  /\ media = {}
  /\ now = 1
  /\ page = "none"
  /\ ViewsUnmounted
  /\ SubmitIdle

\* A moderator in ModerateContent and a reader in ArticlePage work on the
\* same articles, which start without views and likes.
InitArticle ==
  /\ arg = [id |-> NoId]
  /\ ret = NULL
  /\ pc = "idle"
  /\ articles \in [Ids -> {Counted(r, 0, 0) : r \in InitialRows \cup {FlaggedRow}}]
  /\ media = {}
  /\ now = 0
  /\ page = "none"
  /\ ViewsUnmounted
  /\ SubmitIdle

NextArticle ==
  \/ \E id \in Ids : AP_fetchArticle(id)
  \/ AP_handleLike
  \/ Open("MC")
  \/ MC_fetchBlogs
  \/ \E tab \in Tabs : MC_setSelectedTab(tab)
  \/ \E id \in Ids : MC_handleApprove(id)
  \/ \E id \in Ids : MC_handleReject(id)
  \/ \E id \in Ids : MC_handleRemoveFlag(id)
  \/ \E id \in Ids : MC_handleDelete(id)
  \/ \E i \in 1..Len(calls) : MC_Resume(i)

SpecArticle == InitArticle /\ [][NextArticle]_vars

NextApply == \E t \in Transitions, id \in Ids : Apply(t, id)

SpecApply == InitApply /\ [][NextApply]_vars

\* uploadImageToStorage is called on files of the sizes around the limit
InitStorage ==
  /\ arg \in [size : FileSizes, upload : Outcomes, hasUrl : BOOLEAN]
  /\ ret = NULL
  /\ pc = "call"
  /\ ModerationIdle
  /\ SubmitIdle

NextStorage == UploadImage

SpecStorage == InitStorage /\ [][NextStorage]_vars

\* The administrators fill an empty articles table through the two upload
\* forms and look at it in the moderation views.
InitUpload ==
  /\ ScreenIdle
  /\ ModerationIdle
  /\ SubmitIdle

NextUpload ==
  \/ \E p \in Pages : Open(p)
  \/ \E main \in MainImageInputs, inline \in InlineImageInputs :
       AD_handleSubmit(main, inline)
  \/ \E main \in MainImageInputs, inline \in InlineImageInputs :
       AM_handleSubmit(main, inline)
  \/ AD_fetchSubmissions
  \/ AM_fetchBlogs
  \/ MC_fetchBlogs
  \/ \E tab \in Tabs : MC_setSelectedTab(tab)

SpecUpload == InitUpload /\ [][NextUpload]_vars

\* The moderation views open on a table that holds submissions in the states
\* they are created in.
Init ==
  /\ ScreenIdle
  /\ articles \in [Ids -> InitialRows \cup {NoRow}]
  /\ media = UNION {ImagesOf(articles, id) : id \in Ids}
  /\ now = 0
  /\ page = "none"
  /\ ViewsUnmounted
  /\ SubmitIdle

Next ==
  \/ \E p \in Pages : Open(p)
  \/ MC_fetchBlogs
  \/ \E tab \in Tabs : MC_setSelectedTab(tab)
  \/ \E id \in Ids : MC_handleApprove(id)
  \/ \E id \in Ids : MC_handleReject(id)
  \/ \E id \in Ids : MC_openFlagModal(id)
  \/ \E text \in FlagReasonInputs : MC_setFlagReason(text)
  \/ MC_cancelFlag
  \/ MC_handleFlag
  \/ \E id \in Ids : MC_handleRemoveFlag(id)
  \/ \E id \in Ids : MC_handleDelete(id)
  \/ \E i \in 1..Len(calls) : MC_Resume(i)
  \/ \E id \in Ids : AU_handleApprove(id)
  \/ \E id \in Ids : AU_handleReject(id)
  \/ \E i \in 1..Len(calls) : AU_Resume(i)
  \/ AD_fetchSubmissions
  \/ \E id \in Ids, action \in {"approve", "reject", "delete"} :
       AD_handleSubmissionAction(id, action)
  \/ \E i \in 1..Len(calls) : AD_Resume(i)
  \/ AM_fetchBlogs
  \/ \E id \in Ids : AM_handleDeleteBlog(id)
  \/ \E i \in 1..Len(calls) : AM_Resume(i)

Spec == Init /\ [][Next]_vars

\* A user, signed in or not, at a freshly mounted submit form; user_blogs is
\* empty.
InitSubmit ==
  /\ ScreenIdle
  /\ ModerationIdle
  /\ userBlogs = <<>>
  /\ sbSignedIn \in BOOLEAN
  /\ sbForm = EmptyForm
  /\ sbIsSubmitting = FALSE
  /\ sbSubmitSuccess = FALSE
  /\ sbError = ""
  /\ sbAttempts = 0
  /\ ubBlogs = <<>>

NextSubmit ==
  \/ \E form \in FormInputs : SB_handleChange(form)
  \/ SB_handleSubmit
  \/ SB_retrySubmission
  \/ \E i \in 1..Len(calls) : SB_countCheck(i)
  \/ \E i \in 1..Len(calls) : SB_insert(i)
  \/ SB_submissionTimeout
  \/ SB_cancelSubmission

SpecSubmit == InitSubmit /\ [][NextSubmit]_vars

\* The timers of the form fire: the 30-second timer armed while isSubmitting,
\* the 10-second timer the insert is raced with, which settles the race when
\* the insert does not, and the 2-second timer of the redirect. The count request has no timer and may stay
\* without a response for ever.
NextSubmitFair == NextSubmit \/ SB_redirect

SpecSubmitFair ==
  /\ InitSubmit /\ [][NextSubmitFair]_vars
  /\ WF_vars(SB_submissionTimeout)
  /\ WF_vars(SB_redirect)
  /\ \A i \in 1..MaxInflight : WF_vars(i \in 1..Len(calls) /\ SB_insert(i))

\* the rows the submit form inserts
InsertedRows ==
  { UserRow(BlogPost(ModerationResult(form, outcome)), approved) :
      form \in FormInputs, outcome \in ScreeningOutcomes, approved \in BOOLEAN }

\* An admin opens UserBlogs on a table of submitted blogs.
InitUserBlogs ==
  /\ ScreenIdle
  /\ articles = [id \in Ids |-> NoRow]
  /\ media = {}
  /\ now = 0
  /\ page = "UB"
  /\ ViewsUnmounted
  /\ userBlogs \in [1..MaxUserBlogs -> InsertedRows]
  /\ sbSignedIn = TRUE
  /\ sbForm = EmptyForm
  /\ sbIsSubmitting = FALSE
  /\ sbSubmitSuccess = FALSE
  /\ sbError = ""
  /\ sbAttempts = 0
  /\ ubBlogs = <<>>

NextUserBlogs ==
  \/ UB_fetchBlogs
  \/ \E id \in 1..Len(userBlogs) : UB_handleApprove(id)
  \/ \E id \in 1..Len(userBlogs) : UB_handleFlag(id)
  \/ \E id \in 1..Len(userBlogs) : UB_handleDelete(id)
  \/ \E i \in 1..Len(calls) : UB_Resume(i)

SpecUserBlogs == InitUserBlogs /\ [][NextUserBlogs]_vars

-----------------------------------------------------------------------------
(* Properties of the screener, checked under SpecScreen.                   *)

\* s contains the term w as a substring, ignoring case
ContainsTerm(s) == \E w \in BadWords : Includes(ToLowerCase(s), w)

\* the characters next to s[i..j] are not word characters
IsWholeWord(s, i, j) ==
  /\ (i = 1 \/ ~IsWordChar(s[i - 1]))
  /\ (j = Len(s) \/ ~IsWordChar(s[j + 1]))

\* some whole word of s is a denylisted term, ignoring case
ContainsTermAsWord(s) ==
  \E w \in BadWords : \E i \in 1..(Len(s) - Len(w) + 1) :
    /\ IsWholeWord(s, i, i + Len(w) - 1)
    /\ ToLowerCase(SubSeq(s, i, i + Len(w) - 1)) = w

AnyFieldHasTermAsWord ==
  \/ ContainsTermAsWord(arg.title)
  \/ ContainsTermAsWord(arg.content)
  \/ ContainsTermAsWord(arg.category)

\* s contains one of the ten topic keywords, ignoring case
ContainsTopic(s) ==
  \E k \in 1..Len(allowedTopics) : Includes(ToLowerCase(s), allowedTopics[k])

AnyFieldHasTopic ==
  ContainsTopic(arg.title) \/ ContainsTopic(arg.content) \/ ContainsTopic(arg.category)

\* number of characters of s from its first to its last character that is
\* not white space
TrimmedLength(s) ==
  LET black == {i \in 1..Len(s) : s[i] \notin WhiteSpace}
  IN IF black = {} THEN 0
     ELSE LET first == CHOOSE i \in 1..Len(s) :
                         i \in black /\ \A j \in 1..(i - 1) : j \notin black
              last == CHOOSE i \in 1..Len(s) :
                        i \in black /\ \A j \in (i + 1)..Len(s) : j \notin black
          IN last - first + 1

C8_OffTopicRejected ==
  (pc = "done" /\ ~AnyFieldHasTermAsWord /\ ~AnyFieldHasTopic)
    => ret = Verdict("rejected", TRUE, RelevanceReason)

\* A clean off-topic post that is too short as well.
C8_Witness ==
  /\ pc = "done"
  /\ ~AnyFieldHasTermAsWord /\ ~AnyFieldHasTopic
  /\ TrimmedLength(arg.content) < MinContentLength
  /\ Len(arg.content) > 0
  /\ ret = Verdict("rejected", TRUE, RelevanceReason)

\* C9: a clean, on-topic input whose trimmed content is shorter than 100
\* characters is rejected and flagged with the length reason; with a trimmed
\* length of exactly 100 it is not rejected for its length.
C9_ShortRejected ==
  (pc = "done" /\ ~AnyFieldHasTermAsWord /\ AnyFieldHasTopic)
    => /\ TrimmedLength(arg.content) < MinContentLength
          => ret = Verdict("rejected", TRUE, LengthReason)
       /\ TrimmedLength(arg.content) = MinContentLength
          => ret.flag_reason # LengthReason

\* Content of 101 characters of which 99 are left after trimming.
C9_Witness ==
  /\ pc = "done"
  /\ ~AnyFieldHasTermAsWord /\ AnyFieldHasTopic
  /\ Len(arg.content) > MinContentLength
  /\ TrimmedLength(arg.content) = MinContentLength - 1
  /\ ret = Verdict("rejected", TRUE, LengthReason)

\* C10: an input that is clean, holds a topic keyword and has a trimmed
\* content length of at least 100 gets exactly {pending, false, null}.
C10_PassIsPending ==
  (pc = "done" /\ ~AnyFieldHasTermAsWord /\ AnyFieldHasTopic
     /\ TrimmedLength(arg.content) >= MinContentLength)
    => ret = Verdict("pending", FALSE, NULL)

\* A post that passes with a trimmed length of exactly 100 and an upper-case
\* keyword.
C10_Witness ==
  /\ pc = "done"
  /\ ~AnyFieldHasTermAsWord
  /\ ContainsTopic(arg.title) /\ ~Includes(arg.title, <<"t","r","e","n","d">>)
  /\ ~ContainsTopic(arg.content) /\ ~ContainsTopic(arg.category)
  /\ TrimmedLength(arg.content) = MinContentLength
  /\ ret = Verdict("pending", FALSE, NULL)

\* C11: the verdict is that of the first check the input fails, in the order
\* profanity, topic relevance, minimum length, whatever later checks it fails
\* too; it carries one reason or none, and it is determined by the input.
C11_FirstFailureDecides ==
  pc = "done" =>
    /\ ret = IF AnyFieldHasTermAsWord
               THEN Verdict("rejected", TRUE, ProfanityReason)
             ELSE IF ~AnyFieldHasTopic
               THEN Verdict("rejected", TRUE, RelevanceReason)
             ELSE IF TrimmedLength(arg.content) < MinContentLength
               THEN Verdict("rejected", TRUE, LengthReason)
             ELSE Verdict("pending", FALSE, NULL)
    /\ ret.flag_reason \in {NULL, ProfanityReason, RelevanceReason, LengthReason}

\* an input that fails all three checks got the profanity verdict
C11_Witness ==
  /\ pc = "done"
  /\ AnyFieldHasTermAsWord
  /\ ~AnyFieldHasTopic
  /\ TrimmedLength(arg.content) < MinContentLength
  /\ ret = Verdict("rejected", TRUE, ProfanityReason)

-----------------------------------------------------------------------------
(* Claims about the moderator actions on the articles table.               *)

\* a handler sends a write in this step
WriteIssued == Len(calls') = Len(calls) + 1

\* the invocation that sent it
Issued == calls'[Len(calls')]

\* the write of this step is the given operation, was accepted by the store
\* and addresses a row that exists
Applied(op) ==
  /\ WriteIssued
  /\ Issued.op = op
  /\ Issued.res = "ok"
  /\ articles[Issued.id] # NoRow

\* a text of whitespace only, or no text
IsBlank(text) == \A i \in 1..Len(text) : text[i] \in WhiteSpace

\* C3: whichever view offers the Approve that a moderator presses, and
\* whatever the status and the flag of the submission, the stored record is
\* afterwards published, not flagged and without a flag reason.
C3_ApproveClearsFlag ==
  [][Applied("approve") => articles'[Issued.id] = Row("published", FALSE, NULL)]_vars

\* C4: whichever view offers the Reject that a moderator presses, and
\* whatever the status and the flag of the submission, the stored record is
\* afterwards rejected, not flagged and without a flag reason.
C4_RejectClearsFlag ==
  [][Applied("reject") => articles'[Issued.id] = Row("rejected", FALSE, NULL)]_vars

\* C5: Flag writes only for a selected submission and a reason that is not
\* blank, so with a blank reason or without a selection the step sends
\* nothing; the write sets flagged and stores the reason as typed, and the
\* status of the record stays what it was.
C5_FlagSetsReason ==
  [][/\ (WriteIssued /\ Issued.op = "flag") =>
          /\ Issued.id = mcSelectedBlogId
          /\ Issued.id # NoId
          /\ Issued.reason = mcFlagReason
          /\ ~IsBlank(Issued.reason)
     /\ Applied("flag") =>
          articles'[Issued.id] =
            Row(articles[Issued.id].status, TRUE, Issued.reason)
     /\ (page = "MC" /\ mcShowFlagModal
            /\ (mcSelectedBlogId = NoId \/ IsBlank(mcFlagReason))) =>
          (articles' = articles /\ ~WriteIssued)]_vars

\* a Flag with a reason is awaiting its response and the record, shown as
\* unflagged when the modal was opened, is stored flagged with that reason
C5_Witness ==
  \E i \in 1..Len(calls) :
    /\ calls[i].op = "flag"
    /\ calls[i].res = "ok"
    /\ ~calls[i].blogs[calls[i].id].flagged
    /\ articles[calls[i].id] # NoRow
    /\ articles[calls[i].id].flagged
    /\ articles[calls[i].id].flag_reason = calls[i].reason
    /\ ~IsBlank(calls[i].reason)

\* C6: Remove Flag stores flagged = false and flag_reason = null and leaves
\* the status of the record as it was, whatever that status is.
C6_UnflagClearsReason ==
  [][Applied("unflag") =>
       articles'[Issued.id] = Row(articles[Issued.id].status, FALSE, NULL)]_vars

\* a Remove Flag of a published record shown as flagged is awaiting its
\* response and the record is stored published and without flag
C6_Witness ==
  \E i \in 1..Len(calls) :
    /\ calls[i].op = "unflag"
    /\ calls[i].res = "ok"
    /\ calls[i].blogs[calls[i].id].flagged
    /\ articles[calls[i].id] = Row("published", FALSE, NULL)

-----------------------------------------------------------------------------
(* Claims about the stored submissions.                                    *)

\* the submissions stored in articles and in user_blogs
StoredRows ==
  {articles[id] : id \in {x \in Ids : articles[x] # NoRow}}
    \cup {userBlogs[i] : i \in {x \in 1..Len(userBlogs) : userBlogs[x] # NoRow}}

\* a text of at least one character, not null
IsReason(r) == r # NULL /\ Len(r) > 0

\* C1: whatever the moderators did in whatever view, a stored submission is
\* flagged exactly when it carries a non-empty flag reason, and a submission
\* that is not flagged carries no flag reason at all.
C1_FlaggedIffReason ==
  \A row \in StoredRows :
    /\ row.flagged <=> IsReason(row.flag_reason)
    /\ ~row.flagged => row.flag_reason = NULL

\* C2: whatever the form holds and however the screening call ends, the row
\* the submit form sends or has stored is pending or rejected, never
\* published.
C2_NeverStoredPublished ==
  /\ \A i \in 1..Len(userBlogs) : userBlogs[i].status \in {"pending", "rejected"}
  /\ \A i \in 1..Len(calls) : calls[i].post.status \in {"pending", "rejected"}

\* the form has stored a pending and a rejected submission
C2_Witness ==
  /\ \E i \in 1..Len(userBlogs) : userBlogs[i].status = "pending"
  /\ \E i \in 1..Len(userBlogs) :
       userBlogs[i] = Verdict("rejected", TRUE, ProfanityReason)

-----------------------------------------------------------------------------
(* Claims about the submission form's error handling.                      *)

\* the status fields a submission is stored with when it was not screened
SafeDefault == Verdict("pending", FALSE, NULL)

\* the in-flight submissions of the form
SubmitFlows(cs) == { i \in DOMAIN cs : cs[i].view = "SB" }

\* C12: a submission whose screening threw or timed out still goes on to the
\* insert, carries {status: pending, flagged: false, flag_reason: null}, and
\* the row its insert stores has exactly these fields.
C12_FailedScreeningStoresDefault ==
  [][ /\ \A i \in SubmitFlows(calls') :
           ~calls'[i].moderated => calls'[i].post = SafeDefault
      /\ \A i \in SubmitFlows(calls) :
           ( /\ ~calls[i].moderated
             /\ calls[i].pc = "insert"
             /\ calls' = Without(calls, i)
             /\ Len(userBlogs') = Len(userBlogs) + 1 )
           => userBlogs'[Len(userBlogs')] = SafeDefault ]_vars

\* the screening of a form the screener rejects failed, the submission reached
\* its insert with the default fields, and a row with these fields is stored
C12_Witness ==
  /\ sbForm = Form(T_DamnLook, Repeat("x", MinContentLength), W_fashion, "filled")
  /\ \E i \in SubmitFlows(calls) :
       /\ ~calls[i].moderated
       /\ calls[i].pc = "insert"
       /\ calls[i].post = SafeDefault
  /\ \E j \in 1..Len(userBlogs) : userBlogs[j] = SafeDefault

-----------------------------------------------------------------------------
(* Claims about failed and repeated writes of the moderation views.        *)

\* the lists and counters the moderation views show
ViewLists == <<mcBlogs, auPendingBlogs, auPendingApprovals, adSubmissions, amBlogs>>

\* the continuation of call i runs
Resumed(i) == MC_Resume(i) \/ AU_Resume(i) \/ AD_Resume(i) \/ AM_Resume(i)

\* C13: sending the write of a moderator action changes no list of a view,
\* and the continuation of a write that failed changes none either: a list
\* changes only in the continuation of a write the store accepted.
C13_FailedWriteKeepsView ==
  [][ /\ WriteIssued => UNCHANGED ViewLists
      /\ \A i \in DOMAIN calls :
           (calls[i].res = "error" /\ Resumed(i)) => UNCHANGED ViewLists ]_vars

\* the write of a Delete failed in AdminDashboard, or that of a Reject in
\* ModerateContent: the row is stored as it was and the view still lists it
C13_Witness ==
  \E i \in DOMAIN calls, id \in Ids :
    /\ calls[i].res = "error" /\ calls[i].id = id
    /\ articles[id] = PendingRow
    /\ \/ calls[i].view = "AD" /\ calls[i].op = "delete" /\ id \in adSubmissions
       \/ calls[i].view = "MC" /\ calls[i].op = "reject" /\ mcBlogs[id] = PendingRow

\* The message a moderation view shows: AdminDashboard and AdminUpload render
\* their message state; ModerateContent and the dashboard of AdminUpload have
\* no message state and render none.
MessageOf(view) ==
  CASE view = "AD" -> adMessage
    [] view = "AM" -> amMessage
    [] OTHER -> "none"

\* C14: when the write of a moderator action failed, the continuation of
\* the handler leaves an error message visible in the acting view.
C14_FailedWriteShowsMessage ==
  [][ \A i \in DOMAIN calls, view \in Pages :
        (calls[i].view = view /\ calls[i].res = "error" /\ Resumed(i))
        => MessageOf(view)' = "error" ]_vars

\* the transition applied in this step is the one applied just before, on the
\* same row
AppliedAgain == now' = now + 1 /\ arg' = arg

\* C15: a transition applied a second time in succession to the same record
\* leaves the stored record as the first application left it.
C15_TransitionsIdempotent ==
  [][ AppliedAgain => articles' = articles ]_vars

\* C16: Flag with a non-blank reason on a record that is not flagged, followed
\* by Remove Flag, leaves flagged = false, flag_reason = null and the status
\* the record had before the Flag, whatever that status was.
C16_FlagThenUnflagRestores ==
  [][ \A id \in Ids :
        ( /\ arg.view = "MC" /\ arg.op = "flag" /\ arg.id = id
          /\ ~IsBlank(arg.reason)
          /\ ~ret.flagged
          /\ now' = now + 1
          /\ arg'.view = "MC" /\ arg'.op = "unflag" /\ arg'.id = id )
        => /\ articles'[id].flagged = FALSE
           /\ articles'[id].flag_reason = NULL
           /\ articles'[id].status = ret.status ]_vars

\* a published record was flagged with the reason " spam" and the flag was
\* removed: it is published and unflagged, without a reason
C16_Witness ==
  /\ now = 3
  /\ arg.view = "MC" /\ arg.op = "unflag"
  /\ ret = DatedRow(Row("published", TRUE, <<" ">> \o W_spam), 0)
  /\ articles[arg.id] = DatedRow(Row("published", FALSE, NULL), 0)

-----------------------------------------------------------------------------
(* Claims about Delete.                                                    *)

\* C17: once the row of an id is deleted, no later step of any view stores a
\* row under that id again or changes what the bucket holds for it.
C17_DeleteIsTerminal ==
  [][ \A id \in Ids :
        articles[id] = NoRow
        => /\ articles'[id] = NoRow
           /\ MediaOf(media', id) = MediaOf(media, id) ]_vars

\* a Delete succeeded and, from the view that still lists the record, a
\* later Approve, Reject, Flag or Remove Flag was sent and accepted: the
\* record is still absent
C17_Witness ==
  \E i \in DOMAIN calls, j \in DOMAIN calls :
    /\ i < j
    /\ calls[i].op = "delete" /\ calls[i].res = "ok"
    /\ calls[j].op \in {"approve", "reject", "flag", "unflag"}
    /\ calls[j].res = "ok"
    /\ calls[j].id = calls[i].id
    /\ articles[calls[i].id] = NoRow

\* C18: when a view reports a Delete as successful (its continuation drops
\* the record from the list and, where the view has one, shows the success
\* message), the row is gone and the bucket holds no blob of the article.
C18_DeleteRemovesRowAndMedia ==
  [][ \A i \in DOMAIN calls :
        (calls[i].op = "delete" /\ calls[i].res = "ok" /\ Resumed(i))
        => /\ articles'[calls[i].id] = NoRow
           /\ MediaOf(media', calls[i].id) = {} ]_vars

-----------------------------------------------------------------------------
(* Claims about the upload forms of the administrators.                    *)

\* C19: every row an administrator stores through an upload form is stored
\* with status published and flagged false.
C19_AdminPostsPublished ==
  \A id \in Ids :
    articles[id] # NoRow
    => articles[id].status = "published" /\ articles[id].flagged = FALSE

-----------------------------------------------------------------------------
(* Claims about the validation of the submission form.                     *)

\* submitFormToSupabase is entered: the screener is invoked and the requests
\* of the insert follow
SubmissionStarted == Len(calls') = Len(calls) + 1

\* C20: while the title of the form is empty or blank, no press of Publish
\* Article or Retry Submission starts a submission; the press ends with a
\* message and neither the screener nor a request is invoked.
C20_BlankTitleRejectedLocally ==
  [][ (Trim(sbForm.title) = <<>> /\ sbAttempts' = sbAttempts + 1)
      => (~SubmissionStarted /\ sbError' # "") ]_vars

-----------------------------------------------------------------------------
(* Claims about the upload of images.                                      *)

\* C21: a file larger than 5 MB makes uploadImageToStorage throw without a
\* call of storage.upload, and for a file of at most 5 MB the call is made.
C21_SizeLimitBeforeUpload ==
  pc = "done" =>
    IF arg.size > 5 * 1024 * 1024
      THEN ~ret.issued /\ ~ret.stored /\ ret.result = "error" /\ media = {}
      ELSE ret.issued

\* a file of 5 MB and one byte was refused without an upload
C21_Witness ==
  /\ pc = "done"
  /\ arg.size = 5 * 1024 * 1024 + 1
  /\ ~ret.issued /\ ret.result = "error"

-----------------------------------------------------------------------------
(* Claims about what the submission form stores.                           *)

\* the four verdicts of the screener
Verdicts ==
  { Verdict("rejected", TRUE, ProfanityReason),
    Verdict("rejected", TRUE, RelevanceReason),
    Verdict("rejected", TRUE, LengthReason),
    Verdict("pending", FALSE, NULL) }

\* C22: a submission whose screening returned a verdict carries the three
\* fields of that verdict unchanged, for each of the four verdicts, and the
\* row its insert stores has exactly these fields.
C22_VerdictStoredAsReturned ==
  [][ /\ \A v \in Verdicts : BlogPost(v) = v
      /\ SubmissionStarted =>
           LET c == calls'[Len(calls')]
           IN c.moderated =>
                c.post = moderateBlogContent(sbForm.title, sbForm.content,
                                             sbForm.category)
      /\ \A i \in SubmitFlows(calls) :
           ( /\ calls[i].moderated
             /\ calls[i].pc = "insert"
             /\ calls' = Without(calls, i)
             /\ Len(userBlogs') = Len(userBlogs) + 1 )
           => userBlogs'[Len(userBlogs')] = calls[i].post ]_vars

\* a submission with content one character short was screened and is stored
\* as rejected and flagged with the reason of the length check
C22_Witness ==
  \E i \in 1..Len(userBlogs) :
    userBlogs[i] = Verdict("rejected", TRUE, LengthReason)

-----------------------------------------------------------------------------
(* Claims about writes of several moderators on one record.                *)

\* the fields a transition writes, and their values
FieldsWritten(t, date) ==
  CASE t.op = "approve" /\ t.view = "MC" ->
         [status |-> "published", flagged |-> FALSE, flag_reason |-> NULL]
    [] t.op = "reject" /\ t.view = "MC" ->
         [status |-> "rejected", flagged |-> FALSE, flag_reason |-> NULL]
    [] t.op = "flag" -> [flagged |-> TRUE, flag_reason |-> t.reason]
    [] t.op = "unflag" -> [flagged |-> FALSE, flag_reason |-> NULL]
    [] t.op = "approve" /\ t.view = "AU" -> [status |-> "published", date |-> date]
    [] t.op = "reject" /\ t.view = "AU" -> [status |-> "rejected"]

\* C23: the writes of two moderators reach the same record one after the
\* other, in either order; neither is refused, and afterwards each field
\* holds the value of the last write that set it: that of the second write
\* if it set the field, else that of the first if it did, else the old value.
C23_LastWriteWins ==
  [][ \A id \in Ids :
        (now' = now + 1 /\ arg.id = id /\ arg'.id = id)
        => LET first == FieldsWritten(arg, now - 1)
               second == FieldsWritten(arg', now)
           IN /\ articles'[id] # NoRow
              /\ \A f \in DOMAIN articles'[id] :
                   articles'[id][f] =
                     IF f \in DOMAIN second THEN second[f]
                     ELSE IF f \in DOMAIN first THEN first[f]
                     ELSE ret[f] ]_vars

\* one moderator approved a pending record in the dashboard and another then
\* rejected it in ModerateContent: the record is rejected and keeps the date
\* of the approval
C23_Witness ==
  /\ now = 3
  /\ arg.view = "MC" /\ arg.op = "reject"
  /\ ret = DatedRow(Row("published", FALSE, NULL), 1)
  /\ articles[arg.id] = DatedRow(Row("rejected", FALSE, NULL), 1)

\* C24: a row reaches the table either with a reported success or after the
\* 10-second timer of the insert has fired; in the latter case the
\* submission ends as a failed one although the row is stored: no success is
\* shown, the form keeps its content and the submitting state is cleared.
C24_LateInsertReportedAsFailure ==
  [][ Len(userBlogs') = Len(userBlogs) + 1
      => \/ sbSubmitSuccess' /\ sbForm' = EmptyForm
         \/ /\ sbSubmitSuccess' = sbSubmitSuccess
            /\ sbForm' = sbForm
            /\ ~sbIsSubmitting'
            /\ sbError' \in {"unknown", "retry", sbError} ]_vars

\* the only row of the table was stored by an insert that lost the race
\* against its timer: the form shows an error, no success, and its content
C24_Witness ==
  /\ Len(userBlogs) = 1
  /\ ~sbSubmitSuccess
  /\ sbAttempts = 1
  /\ sbError = "unknown"
  /\ sbForm # EmptyForm
  /\ calls = <<>>

C26_FailedSubmitKeepsUploads ==
  FreeIds # {} =>
    \A payload \in {AD_InsertPayload, AM_InsertPayload},
       main \in MainImageInputs, inline \in InlineImageInputs,
       up1 \in Outcomes, up2 \in Outcomes, ins \in Outcomes :
      LET r == Submitted(payload, main, inline, up1, up2, ins)
          id == CHOOSE i \in FreeIds : \A j \in FreeIds : i <= j
          mainUploaded == main = "file" /\ up1 = "ok"
          inlineUploaded == /\ main = "url" \/ mainUploaded
                            /\ inline = "file" /\ up2 = "ok"
      IN r.message = "error" =>
           /\ r.articles = articles
           /\ articles[id] = NoRow
           /\ media \subseteq r.media
           /\ mainUploaded => <<id, "image">> \in r.media
           /\ inlineUploaded => <<id, "additionalImages">> \in r.media

\* an upload form shows an error, the bucket holds both images of the failed
\* submission and articles has no row for them
C26_Witness ==
  /\ page \in {"AD", "AM"}
  /\ MessageOf(page) = "error"
  /\ \E id \in Ids :
       /\ articles[id] = NoRow
       /\ MediaOf(media, id) = {<<id, "image">>, <<id, "additionalImages">>}

\* the status, flagged and flag_reason of the stored rows
StatusFields(table) ==
  [id \in {i \in Ids : table[i] # NoRow} |->
     Row(table[id].status, table[id].flagged, table[id].flag_reason)]

\* the steps that list, filter, open or like
ReadingStep ==
  \/ \E id \in Ids : AP_fetchArticle(id)
  \/ AP_handleLike
  \/ Open("MC")
  \/ MC_fetchBlogs
  \/ \E tab \in Tabs : MC_setSelectedTab(tab)

\* C27: opening an article, liking it, and the selects of ModerateContent
\* leave status, flagged and flag_reason of every stored row as they are;
\* these fields change only in a step in which a moderator's handler sends
\* its write.
C27_StatusFieldsFramed ==
  [][ /\ ReadingStep => StatusFields(articles') = StatusFields(articles)
      /\ StatusFields(articles') # StatusFields(articles)
           => Len(calls') = Len(calls) + 1 ]_vars

\* a moderator approved the article a reader had opened and then liked: the
\* counters are up and the row is as the moderator left it
C27_Witness ==
  /\ pc = "shown"
  /\ articles[arg.id] # NoRow
  /\ articles[arg.id].views > 0 /\ articles[arg.id].likes > 0
  /\ ret.status = "pending"
  /\ articles[arg.id].status = "published"

\* the status, flagged and flag_reason of one row
StatusOf(row) == Row(row.status, row.flagged, row.flag_reason)

\* C28: when no handler of ModerateContent awaits its write any more, every
\* row the view lists is stored and has the status, flagged and flag_reason
\* of the stored row.
C28_ViewMatchesStore ==
  (page = "MC" /\ calls = <<>>) =>
    \A id \in Ids :
      mcBlogs[id] # NoRow =>
        articles[id] # NoRow /\ StatusOf(mcBlogs[id]) = StatusOf(articles[id])

\* C29: whenever isSubmitting is true it becomes false again, whatever the
\* requests of the submission do, the count request never answering included.
C29_SubmittingEnds == sbIsSubmitting ~> ~sbIsSubmitting

\* the count request of a submission has not answered and the 30-second
\* timer has ended the submitting state
C29_Witness ==
  /\ ~sbIsSubmitting
  /\ sbError = "slow"
  /\ \E i \in SubmitFlows(calls) : calls[i].pc = "count"

\* C30: when no handler of the dashboard awaits its write any more, the
\* pendingApprovals counter is not negative, and with every pending article
\* listed it equals the number of stored articles whose status is pending.
C30_PendingCounterExact ==
  (page = "AU" /\ calls = <<>>) =>
    /\ auPendingApprovals >= 0
    /\ auPendingBlogs = PendingIds(articles)
         => auPendingApprovals = Cardinality(PendingIds(articles))

====
